---- MODULE Spec2Model ----
(***************************************************************************)
(* terraform-provider-pfsense-v2: provider configuration (ConfiguredURL,   *)
(* ConfiguredAuth, ConfiguredInsecure, Configure), the API client          *)
(* (NewPFSenseClientV2, the auth header decorators, GetBaseConfig,         *)
(* GetFirewallRules), the data source (Configure, Read, WANRules) and the  *)
(* port validator (PortRangeOrNullValidator.ValidateString, PortNumber).   *)
(*                                                                         *)
(* Go strings are sequences of one-character strings, so that the          *)
(* byte-level library calls the code makes (strings.ToLower,               *)
(* base64.StdEncoding.EncodeToString) are computed, not assumed.           *)
(***************************************************************************)
EXTENDS Integers, Sequences, FiniteSets, TLC

VARIABLES
    config,          \* ScaffoldingProviderModel read from req.Config
    env,             \* the process environment (os.Getenv)
    pc,              \* position in the plugin lifecycle
    impl,            \* which revision of ScaffoldingProvider.Configure ran
    locals,          \* url, auth, insecure as computed inside Configure
    diags,           \* provider.ConfigureResponse.Diagnostics
    DataSourceData,  \* provider.ConfigureResponse.DataSourceData
    ResourceData,    \* provider.ConfigureResponse.ResourceData
    newClientCalls,  \* arguments of every NewPFSenseClientV2 call
    dsClient,        \* PFSenseDataSource.client
    dsDiags,         \* datasource.ConfigureResponse.Diagnostics
    requests,        \* HTTP requests sent so far, in order
    hostResp,        \* outcome of the hostname request of the last Read
    rulesResp,       \* outcome of the firewall-rules request of the last Read
    fetched,         \* what GetBaseConfig / GetFirewallRules returned in Read
    readStatus,      \* "none", "returned" or "panic"
    readDiags,       \* datasource.ReadResponse.Diagnostics
    state,           \* the PFSenseModel handed to resp.State.Set (Nil until then)
    libPc,           \* which library call is under way, outside the lifecycle
    portValue,       \* validator.StringRequest.ConfigValue
    portDiags,       \* validator.StringResponse.Diagnostics
    wanInput,        \* the PFSenseFirewallRules that WANRules is called on
    wanResult        \* what WANRules returned

vars == <<config, env, pc, impl, locals, diags, DataSourceData, ResourceData,
          newClientCalls, dsClient, dsDiags, requests, hostResp, rulesResp,
          fetched, readStatus, readDiags, state,
          libPc, portValue, portDiags, wanInput, wanResult>>

(***************************************************************************)
(* Strings and bytes                                                       *)
(***************************************************************************)

\* The printable ASCII characters, code 32 (space) to 126 (~), in order; the
\* double quote (34), the backslash (92) and the backtick (96) are spelled out.
Printable ==
    <<" ", "!", "QUOTE", "#", "$", "%", "&", "'", "(", ")", "*", "+", ",", "-", ".", "/",
      "0", "1", "2", "3", "4", "5", "6", "7", "8", "9", ":", ";", "<", "=", ">", "?",
      "@", "A", "B", "C", "D", "E", "F", "G", "H", "I", "J", "K", "L", "M", "N", "O",
      "P", "Q", "R", "S", "T", "U", "V", "W", "X", "Y", "Z", "[", "BACKSLASH", "]", "^", "_",
      "BACKTICK", "a", "b", "c", "d", "e", "f", "g", "h", "i", "j", "k", "l", "m", "n", "o",
      "p", "q", "r", "s", "t", "u", "v", "w", "x", "y", "z", "{", "|", "}", "~">>

\* The byte of a character and the character of a byte ([]byte(s), string(b)).
Ord(c) == 31 + (CHOOSE i \in 1..Len(Printable) : Printable[i] = c)

Chr(n) == Printable[n - 31]

\* unicode.ToLower on one ASCII character.
LowerChar(c) == IF Ord(c) >= Ord("A") /\ Ord(c) <= Ord("Z") THEN Chr(Ord(c) + 32) ELSE c

\* strings.ToLower
ToLower(s) == [i \in 1..Len(s) |-> LowerChar(s[i])]

\* The alphabet of base64.StdEncoding; '=' pads.
B64Alphabet ==
    <<"A", "B", "C", "D", "E", "F", "G", "H", "I", "J", "K", "L", "M", "N", "O", "P",
      "Q", "R", "S", "T", "U", "V", "W", "X", "Y", "Z", "a", "b", "c", "d", "e", "f",
      "g", "h", "i", "j", "k", "l", "m", "n", "o", "p", "q", "r", "s", "t", "u", "v",
      "w", "x", "y", "z", "0", "1", "2", "3", "4", "5", "6", "7", "8", "9", "+", "/">>

B64Char(v) == B64Alphabet[v + 1]

RECURSIVE EncodeBytes(_)
\* base64.StdEncoding over a sequence of bytes: 3 bytes become 4 characters,
\* a trailing group of 1 or 2 bytes is padded with '='.
EncodeBytes(b) ==
    IF Len(b) = 0 THEN <<>>
    ELSE IF Len(b) = 1 THEN
        <<B64Char(b[1] \div 4), B64Char((b[1] % 4) * 16), "=", "=">>
    ELSE IF Len(b) = 2 THEN
        <<B64Char(b[1] \div 4),
          B64Char((b[1] % 4) * 16 + (b[2] \div 16)),
          B64Char((b[2] % 16) * 4), "=">>
    ELSE
        <<B64Char(b[1] \div 4),
          B64Char((b[1] % 4) * 16 + (b[2] \div 16)),
          B64Char((b[2] % 16) * 4 + (b[3] \div 64)),
          B64Char(b[3] % 64)>> \o EncodeBytes(SubSeq(b, 4, Len(b)))

\* base64.StdEncoding.EncodeToString([]byte(s))
EncodeToString(s) == EncodeBytes([i \in 1..Len(s) |-> Ord(s[i])])

(***************************************************************************)
(* terraform-plugin-framework attribute values and diagnostics             *)
(***************************************************************************)

\* A types.String / types.Bool is null, unknown or known; ValueString and
\* ValueBool give the zero value of a null or unknown attribute.
NullString == [state |-> "null", value |-> <<>>]

UnknownString == [state |-> "unknown", value |-> <<>>]

StringValue(s) == [state |-> "known", value |-> s]

NullBool == [state |-> "null", value |-> FALSE]

UnknownBool == [state |-> "unknown", value |-> FALSE]

BoolValue(b) == [state |-> "known", value |-> b]

IsNull(a) == a.state = "null"

IsUnknown(a) == a.state = "unknown"

\* Diagnostics.AddError / AddAttributeError; detail is abbreviated to a tag.
AddError(d, summary, detail) ==
    Append(d, [severity |-> "error", summary |-> summary, detail |-> detail, attr |-> ""])

AddAttributeError(d, attr, summary, detail) ==
    Append(d, [severity |-> "error", summary |-> summary, detail |-> detail, attr |-> attr])

HasError(d) == \E i \in 1..Len(d) : d[i].severity = "error"

\* A nil pointer, nil interface value or nil error.
Nil == [kind |-> "nil"]

IsNil(x) == x.kind = "nil"

\* A non-nil pointer to v (the generated response structs hold pointers).
Ptr(v) == [kind |-> "ptr", v |-> v]

\* A non-nil error value.
Errorf(msg) == [kind |-> "error", msg |-> msg]

(***************************************************************************)
(* The API client (package pfsense_rest_v2)                                *)
(***************************************************************************)

BasicAuth(username, password) ==
    [kind |-> "BasicAuth", Username |-> username, Password |-> password]

APIKeyAuth(token) == [kind |-> "APIKeyAuth", APIToken |-> token]

\* AddHeader appends a request editor that does req.Header.Add(header, value).
AddHeader(client, header, value) ==
    [client EXCEPT !.RequestEditors =
        Append(@, [op |-> "Add", header |-> header, value |-> value])]

\* RemoveHeader appends a request editor that does req.Header.Del(header).
RemoveHeader(client, header) ==
    [client EXCEPT !.RequestEditors =
        Append(@, [op |-> "Del", header |-> header, value |-> <<>>])]

\* A ClientOption or RequestEditor closure is the data it captured.
\* BasicAuth.ClientOption joining username and password without the colon.
BasicAuthClientOptionNoColon(auth) ==
    LET basicToken == EncodeToString(auth.Username \o auth.Password)
    IN  [run |-> "AddHeader", header |-> "Authorization",
         value |-> <<"B", "a", "s", "i", "c", " ">> \o basicToken]

APIKeyAuthClientOption(auth) ==
    [run |-> "AddHeader", header |-> "X-API-Key", value |-> auth.APIToken]

BasicAuthClientOption(auth) ==
    LET basicToken == EncodeToString(auth.Username \o <<":">> \o auth.Password)
    IN  [run |-> "AddHeader", header |-> "Authorization",
         value |-> <<"B", "a", "s", "i", "c", " ">> \o basicToken]

\* auth.ClientOption(): dynamic dispatch on the Authorization interface.
ClientOption(auth) ==
    IF auth.kind = "BasicAuth" THEN BasicAuthClientOption(auth)
    ELSE APIKeyAuthClientOption(auth)

ApplicationJSON ==
    <<"a", "p", "p", "l", "i", "c", "a", "t", "i", "o", "n", "/", "j", "s", "o", "n">>

\* WithContentTypeJSON, as an option value.
WithContentTypeJSON == [run |-> "WithContentTypeJSON", header |-> "", value |-> <<>>]

\* Running an option on a client: the closures returned by the ClientOption
\* methods call AddHeader, WithContentTypeJSON appends its own editor; all
\* of them return a nil error.
RunOption(opt, client) ==
    IF opt.run = "AddHeader"
    THEN [client |-> AddHeader(client, opt.header, opt.value), err |-> Nil]
    ELSE [client |-> [client EXCEPT !.RequestEditors =
                        Append(@, [op |-> "Add", header |-> "Content-Type",
                                   value |-> ApplicationJSON])],
          err |-> Nil]

RECURSIVE RunOptions(_, _)
\* The options in order, stopping at the first error.
RunOptions(opts, client) ==
    IF opts = <<>> THEN [client |-> client, err |-> Nil]
    ELSE LET r == RunOption(Head(opts), client)
         IN  IF ~IsNil(r.err) THEN [client |-> Nil, err |-> r.err]
             ELSE RunOptions(Tail(opts), r.client)

\* The generated constructor: a client for the server, the options applied
\* in order, the first failing option returned as the error, a trailing
\* slash put on the server URL, and the default http.Client.
NewClientWithResponses(server, opts) ==
    LET c0 == [Server |-> server, RequestEditors |-> <<>>,
               Client |-> [InsecureSkipVerify |-> FALSE]]
        r == RunOptions(opts, c0)
        c == r.client
        slashed == IF c.Server # <<>> /\ c.Server[Len(c.Server)] = "/"
                   THEN c.Server ELSE c.Server \o <<"/">>
    IN  IF ~IsNil(r.err) THEN [client |-> Nil, err |-> r.err]
        ELSE [client |-> [c EXCEPT !.Server = slashed], err |-> Nil]

\* NewPFSenseClientV2 never reads its insecure argument.
NewPFSenseClientV2(url, auth, insecure) ==
    LET r == NewClientWithResponses(url, <<ClientOption(auth), WithContentTypeJSON>>)
    IN  IF ~IsNil(r.err) THEN [client |-> Nil, err |-> r.err]
        ELSE [client |-> [kind |-> "PFSenseClientV2", url |-> url,
                          apiClient |-> r.client],
              err |-> Nil]

(***************************************************************************)
(* Provider configuration (package provider)                               *)
(***************************************************************************)

\* ConfiguredURL without its check for an empty URL.
ConfiguredURLNoEmptyCheck(c, e, d) ==
    LET d1 == IF IsUnknown(c.URL)
              THEN AddAttributeError(d, "url", "Unknown PFSenseV2 URL", "unknown-url")
              ELSE d
        url == IF ~IsNull(c.URL) THEN c.URL.value ELSE e.PFSENSEV2_URL
    IN  [url |-> url, diags |-> d1]

\* ConfiguredURL: the URL from the environment, replaced by the config value
\* whenever the attribute is not null.
ConfiguredURL(c, e, d) ==
    LET d1 == IF IsUnknown(c.URL)
              THEN AddAttributeError(d, "url", "Unknown PFSenseV2 URL", "unknown-url")
              ELSE d
        url == IF ~IsNull(c.URL) THEN c.URL.value ELSE e.PFSENSEV2_URL
        d2 == IF url = <<>>
              THEN AddAttributeError(d1, "url", "Unknown PFSenseV2 URL", "unknown-url")
              ELSE d1
    IN  [url |-> url, diags |-> d2]

\* A ConfiguredAuth that returns nil without a diagnostic when no credential
\* is set.
ConfiguredAuthSilent(c, e, d) ==
    LET title == "No valid PFSenseV2 authentication configured"
        username == IF ~IsNull(c.APIClientUsername) THEN c.APIClientUsername.value
                    ELSE e.PFSENSEV2_API_USERNAME
        password == IF ~IsNull(c.APIClientPassword) THEN c.APIClientPassword.value
                    ELSE e.PFSENSEV2_API_PASSWORD
        token == IF ~IsNull(c.APIClientToken) THEN c.APIClientToken.value
                 ELSE e.PFSENSEV2_API_TOKEN
    IN  IF /\ IsUnknown(c.APIClientUsername)
           /\ IsUnknown(c.APIClientPassword)
           /\ IsUnknown(c.APIClientToken)
        THEN [auth |-> Nil, diags |-> AddError(d, title, "one-of-must-be-set")]
        ELSE IF username # <<>> /\ password # <<>> /\ token = <<>>
        THEN [auth |-> Nil, diags |-> AddError(d, title, "only-one-can-be-set")]
        ELSE IF username # <<>> /\ password # <<>>
        THEN [auth |-> BasicAuth(username, password), diags |-> d]
        ELSE IF token # <<>>
        THEN [auth |-> APIKeyAuth(token), diags |-> d]
        ELSE [auth |-> Nil, diags |-> d]

\* ConfiguredAuth choosing BasicAuth as soon as a username is set.
ConfiguredAuthBasicOnUsername(c, e, d) ==
    LET title == "No valid PFSenseV2 authentication configured"
        username == IF ~IsNull(c.APIClientUsername) THEN c.APIClientUsername.value
                    ELSE e.PFSENSEV2_API_USERNAME
        password == IF ~IsNull(c.APIClientPassword) THEN c.APIClientPassword.value
                    ELSE e.PFSENSEV2_API_PASSWORD
        token == IF ~IsNull(c.APIClientToken) THEN c.APIClientToken.value
                 ELSE e.PFSENSEV2_API_TOKEN
    IN  IF /\ IsUnknown(c.APIClientUsername)
           /\ IsUnknown(c.APIClientPassword)
           /\ IsUnknown(c.APIClientToken)
        THEN [auth |-> Nil, diags |-> AddError(d, title, "one-of-must-be-set")]
        ELSE IF username # <<>> /\ password # <<>> /\ token = <<>>
        THEN [auth |-> Nil, diags |-> AddError(d, title, "only-one-can-be-set")]
        ELSE IF username # <<>>
        THEN [auth |-> BasicAuth(username, password), diags |-> d]
        ELSE IF token # <<>>
        THEN [auth |-> APIKeyAuth(token), diags |-> d]
        ELSE [auth |-> Nil, diags |-> AddError(d, title, "one-of-must-be-set")]

ConfiguredAuth(c, e, d) ==
    LET title == "No valid PFSenseV2 authentication configured"
        username == IF ~IsNull(c.APIClientUsername) THEN c.APIClientUsername.value
                    ELSE e.PFSENSEV2_API_USERNAME
        password == IF ~IsNull(c.APIClientPassword) THEN c.APIClientPassword.value
                    ELSE e.PFSENSEV2_API_PASSWORD
        token == IF ~IsNull(c.APIClientToken) THEN c.APIClientToken.value
                 ELSE e.PFSENSEV2_API_TOKEN
    IN  IF /\ IsUnknown(c.APIClientUsername)
           /\ IsUnknown(c.APIClientPassword)
           /\ IsUnknown(c.APIClientToken)
        THEN [auth |-> Nil, diags |-> AddError(d, title, "one-of-must-be-set")]
        ELSE IF username # <<>> /\ password # <<>> /\ token = <<>>
        THEN [auth |-> Nil, diags |-> AddError(d, title, "only-one-can-be-set")]
        ELSE IF username # <<>> /\ password # <<>>
        THEN [auth |-> BasicAuth(username, password), diags |-> d]
        ELSE IF token # <<>>
        THEN [auth |-> APIKeyAuth(token), diags |-> d]
        ELSE [auth |-> Nil, diags |-> AddError(d, title, "one-of-must-be-set")]

\* ConfiguredInsecure comparing the variable with "false" as written.
ConfiguredInsecureCaseSensitive(c, e, d) ==
    LET d1 == IF IsUnknown(c.Insecure)
              THEN AddAttributeError(d, "insecure", "Unknown PFSenseV2 Insecure Flag",
                                     "unknown-insecure")
              ELSE d
        fromEnv == /\ Len(e.PFSENSEV2_INSECURE) > 0
                   /\ e.PFSENSEV2_INSECURE # <<"f", "a", "l", "s", "e">>
        insecure == IF ~IsNull(c.Insecure) THEN c.Insecure.value ELSE fromEnv
    IN  [insecure |-> insecure, diags |-> d1]

ConfiguredInsecure(c, e, d) ==
    LET d1 == IF IsUnknown(c.Insecure)
              THEN AddAttributeError(d, "insecure", "Unknown PFSenseV2 Insecure Flag",
                                     "unknown-insecure")
              ELSE d
        fromEnv == /\ Len(e.PFSENSEV2_INSECURE) > 0
                   /\ ToLower(e.PFSENSEV2_INSECURE) # <<"f", "a", "l", "s", "e">>
        insecure == IF ~IsNull(c.Insecure) THEN c.Insecure.value ELSE fromEnv
    IN  [insecure |-> insecure, diags |-> d1]

\* ScaffoldingProvider.Configure, with ConfiguredURL / ConfiguredAuth /
\* ConfiguredInsecure. The result holds everything the handler leaves behind.
\* req.Config.Get decodes into ScaffoldingProviderModel, whose five fields
\* are the five attributes of the provider schema, and reports nothing.
ConfigureResult(c, e) ==
    LET u == ConfiguredURL(c, e, <<>>)
        a == ConfiguredAuth(c, e, u.diags)
        i == ConfiguredInsecure(c, e, a.diags)
        l == [url |-> u.url, auth |-> a.auth, insecure |-> i.insecure]
        r == NewPFSenseClientV2(u.url, a.auth, i.insecure)
    IN  IF HasError(i.diags)
        THEN [status |-> "returned", locals |-> l, diags |-> i.diags,
              calls |-> <<>>, data |-> Nil]
        ELSE IF IsNil(a.auth)
        THEN \* auth.ClientOption() on a nil interface value
             [status |-> "panic", locals |-> l, diags |-> i.diags,
              calls |-> <<l>>, data |-> Nil]
        ELSE IF ~IsNil(r.err)
        THEN [status |-> "returned", locals |-> l,
              diags |-> AddError(i.diags, "Unable to Create PFSenseV2 API Client",
                                 "unexpected-error"),
              calls |-> <<l>>, data |-> Nil]
        ELSE [status |-> "returned", locals |-> l, diags |-> i.diags,
              calls |-> <<l>>, data |-> r.client]

\* The earlier revision of ScaffoldingProvider.Configure: username and token
\* are both required, the password is not read, the insecure flag comes from
\* the environment alone and the client is http.DefaultClient.
DefaultClientConfigureResult(c, e) ==
    LET d1 == IF IsUnknown(c.URL)
              THEN AddAttributeError(<<>>, "url", "Unknown PFSenseV2 URL", "unknown-url")
              ELSE <<>>
        d2 == IF IsUnknown(c.APIClientUsername)
              THEN AddAttributeError(d1, "api_client_username",
                       "Unknown PFSenseV2 API Client Username", "unknown-username")
              ELSE d1
        d3 == IF IsUnknown(c.APIClientToken)
              THEN AddAttributeError(d2, "api_client_token",
                       "Unknown PFSenseV2 API Client Token", "unknown-token")
              ELSE d2
        d4 == IF IsUnknown(c.Insecure)
              THEN AddAttributeError(d3, "insecure", "Unknown PFSenseV2 Insecure Flag",
                                     "unknown-insecure")
              ELSE d3
        url == IF ~IsNull(c.URL) THEN c.URL.value ELSE e.PFSENSEV2_URL
        username == IF ~IsNull(c.APIClientUsername) THEN c.APIClientUsername.value
                    ELSE e.PFSENSEV2_API_USERNAME
        token == IF ~IsNull(c.APIClientToken) THEN c.APIClientToken.value
                 ELSE e.PFSENSEV2_API_TOKEN
        insecure == Len(e.PFSENSEV2_INSECURE) > 0
        d5 == IF url = <<>>
              THEN AddAttributeError(d4, "url", "Missing PFSenseV2 URL", "missing-url")
              ELSE d4
        d6 == IF username = <<>>
              THEN AddAttributeError(d5, "api_client_username",
                       "Missing PFSenseV2 API Client Username", "missing-username")
              ELSE d5
        d7 == IF token = <<>>
              THEN AddAttributeError(d6, "api_client_token",
                       "Missing PFSenseV2 API Client Token", "missing-token")
              ELSE d6
        none == [url |-> <<>>, auth |-> Nil, insecure |-> FALSE]
        l == [url |-> url, auth |-> Nil, insecure |-> insecure]
    IN  IF HasError(d4)
        THEN [status |-> "returned", locals |-> none, diags |-> d4,
              calls |-> <<>>, data |-> Nil]
        ELSE IF HasError(d7)
        THEN [status |-> "returned", locals |-> l, diags |-> d7,
              calls |-> <<>>, data |-> Nil]
        ELSE [status |-> "returned", locals |-> l, diags |-> d7,
              calls |-> <<>>, data |-> [kind |-> "http.Client"]]

(***************************************************************************)
(* Requests and responses                                                  *)
(***************************************************************************)

RECURSIVE ApplyEditors(_, _)
\* The generated client runs its RequestEditors, in order, on every request
\* before sending it: Header.Add appends a value, Header.Del drops the header.
ApplyEditors(editors, headers) ==
    IF editors = <<>> THEN headers
    ELSE LET ed == Head(editors)
             next == IF ed.op = "Add"
                     THEN Append(headers, [name |-> ed.header, value |-> ed.value])
                     ELSE SelectSeq(headers, LAMBDA h : h.name # ed.header)
         IN  ApplyEditors(Tail(editors), next)

\* The request a generated ...WithResponse method sends for an endpoint.
NewRequest(apiClient, endpoint) ==
    [endpoint |-> endpoint, server |-> apiClient.Server,
     headers |-> ApplyEditors(apiClient.RequestEditors, <<>>)]

\* A GetBaseConfig that sends its request a second time when the first
\* attempt failed.
GetBaseConfigRetry(c, res) ==
    LET req == NewRequest(c.apiClient, "GetSystemHostnameEndpoint")
    IN  IF res.failed \/ IsNil(res.JSON200)
        THEN [status |-> "returned", value |-> Nil,
              err |-> Errorf("unexpected response retrieving base config"),
              sent |-> <<req, req>>]
        ELSE IF IsNil(res.JSON200.Data.Hostname) \/ IsNil(res.JSON200.Data.Domain)
        THEN [status |-> "panic", value |-> Nil, err |-> Nil, sent |-> <<req>>]
        ELSE [status |-> "returned",
              value |-> [kind |-> "PFSenseBaseConfig",
                         Hostname |-> res.JSON200.Data.Hostname.v,
                         Domain |-> res.JSON200.Data.Domain.v],
              err |-> Nil, sent |-> <<req>>]

\* GetBaseConfig: one hostname request; res is what the server (or the
\* transport) answered.
GetBaseConfig(c, res) ==
    LET req == NewRequest(c.apiClient, "GetSystemHostnameEndpoint")
    IN  IF res.failed
        THEN [status |-> "returned", value |-> Nil,
              err |-> Errorf("transport"), sent |-> <<req>>]
        ELSE IF IsNil(res.JSON200)
        THEN [status |-> "returned", value |-> Nil,
              err |-> Errorf("unexpected response retrieving base config"),
              sent |-> <<req>>]
        ELSE IF IsNil(res.JSON200.Data.Hostname) \/ IsNil(res.JSON200.Data.Domain)
        THEN [status |-> "panic", value |-> Nil, err |-> Nil, sent |-> <<req>>]
        ELSE [status |-> "returned",
              value |-> [kind |-> "PFSenseBaseConfig",
                         Hostname |-> res.JSON200.Data.Hostname.v,
                         Domain |-> res.JSON200.Data.Domain.v],
              err |-> Nil, sent |-> <<req>>]

\* Every pointer field of a generated FirewallRule record is set.
AllFieldsPresent(r) ==
    /\ ~IsNil(r.Type) /\ ~IsNil(r.Interface) /\ ~IsNil(r.Disabled)
    /\ ~IsNil(r.Ipprotocol) /\ ~IsNil(r.Log) /\ ~IsNil(r.Descr)
    /\ ~IsNil(r.Protocol) /\ ~IsNil(r.Source) /\ ~IsNil(r.SourcePort)
    /\ ~IsNil(r.Destination) /\ ~IsNil(r.DestinationPort)

\* RuleFromJSON with source and destination exchanged.
RuleFromJSONSwapped(r) ==
    [Type            |-> r.Type.v,
     Interfaces      |-> r.Interface.v,
     Disabled        |-> r.Disabled.v,
     AddressFamily   |-> r.Ipprotocol.v,
     Log             |-> r.Log.v,
     Description     |-> r.Descr.v,
     Protocol        |-> r.Protocol.v,
     Source          |-> r.Destination.v,
     SourcePort      |-> r.SourcePort.v,
     Destination     |-> r.Source.v,
     DestinationPort |-> r.DestinationPort.v]

\* The PFSenseFirewallRule built from one record of the response.
RuleFromJSON(r) ==
    [Type            |-> r.Type.v,
     Interfaces      |-> r.Interface.v,
     Disabled        |-> r.Disabled.v,
     AddressFamily   |-> r.Ipprotocol.v,
     Log             |-> r.Log.v,
     Description     |-> r.Descr.v,
     Protocol        |-> r.Protocol.v,
     Source          |-> r.Source.v,
     SourcePort      |-> r.SourcePort.v,
     Destination     |-> r.Destination.v,
     DestinationPort |-> r.DestinationPort.v]

\* GetFirewallRules: one firewall-rules request (limit 0); a record with a
\* missing field stops the loop with a nil dereference.
GetFirewallRules(c, res) ==
    LET req == NewRequest(c.apiClient, "GetFirewallRulesEndpoint")
    IN  IF res.failed
        THEN [status |-> "returned", value |-> <<>>,
              err |-> Errorf("transport"), sent |-> <<req>>]
        ELSE IF IsNil(res.JSON200)
        THEN [status |-> "returned", value |-> <<>>,
              err |-> Errorf("unexpected response retrieving firewall rules"),
              sent |-> <<req>>]
        ELSE LET rulesJSON == res.JSON200.Data.v
             IN  IF \E i \in 1..Len(rulesJSON) : ~AllFieldsPresent(rulesJSON[i])
                 THEN [status |-> "panic", value |-> <<>>, err |-> Nil, sent |-> <<req>>]
                 ELSE [status |-> "returned",
                       value |-> [i \in 1..Len(rulesJSON) |-> RuleFromJSON(rulesJSON[i])],
                       err |-> Nil, sent |-> <<req>>]

(***************************************************************************)
(* The data source (package provider)                                      *)
(***************************************************************************)

\* The model rule Read builds from one fetched rule.
ModelRule(r) ==
    [Type            |-> StringValue(r.Type),
     Interfaces      |-> [k \in 1..Len(r.Interfaces) |-> StringValue(r.Interfaces[k])],
     Disabled        |-> BoolValue(r.Disabled),
     AddressFamily   |-> StringValue(r.AddressFamily),
     Log             |-> BoolValue(r.Log),
     Description     |-> StringValue(r.Description),
     Protocol        |-> StringValue(r.Protocol),
     Source          |-> StringValue(r.Source),
     SourcePort      |-> StringValue(r.SourcePort),
     Destination     |-> StringValue(r.Destination),
     DestinationPort |-> StringValue(r.DestinationPort)]

\* A Contains that looks at the first element only.
ContainsFirst(s, v) == s # <<>> /\ s[1] = v

\* slices.Contains.
Contains(s, v) == \E k \in 1..Len(s) : s[k] = v

RECURSIVE WANRulesFrom(_, _)
\* The loop of WANRules over the rules not yet visited; rule is a pointer
\* and *rule is appended.
WANRulesFrom(rules, wanRules) ==
    IF rules = <<>> THEN wanRules
    ELSE LET rule == Head(rules)
         IN  WANRulesFrom(Tail(rules),
                          IF Contains(rule.v.Interfaces, StringValue(<<"w", "a", "n">>))
                          THEN Append(wanRules, rule.v)
                          ELSE wanRules)

\* PFSenseFirewallRules.WANRules.
WANRules(rules) == WANRulesFrom(rules, <<>>)

\* PFSenseDataSource.Read on client c, given the diagnostics of
\* req.Config.Get and the outcomes of the two fetches.
ReadResult(c, getDiags, hres, rres) ==
    LET b == GetBaseConfig(c, hres)
        d1 == IF ~IsNil(b.err) THEN AddError(getDiags, "Client Error", "base-config")
              ELSE getDiags
        f == GetFirewallRules(c, rres)
        d2 == IF ~IsNil(f.err) THEN AddError(d1, "Client Error", "firewall-rules") ELSE d1
        firewallRules == [i \in 1..Len(f.value) |-> ModelRule(f.value[i])]
        none == [base |-> Nil, rules |-> <<>>]
    IN  IF HasError(getDiags)
        THEN [status |-> "returned", sent |-> <<>>, fetched |-> none,
              diags |-> getDiags, state |-> Nil]
        ELSE IF IsNil(c)
        THEN \* c.apiClient on a nil *PFSenseClientV2
             [status |-> "panic", sent |-> <<>>, fetched |-> none,
              diags |-> getDiags, state |-> Nil]
        ELSE IF b.status = "panic"
        THEN [status |-> "panic", sent |-> b.sent, fetched |-> none,
              diags |-> getDiags, state |-> Nil]
        ELSE IF f.status = "panic"
        THEN [status |-> "panic", sent |-> b.sent \o f.sent,
              fetched |-> [base |-> b.value, rules |-> <<>>],
              diags |-> d1, state |-> Nil]
        ELSE IF IsNil(b.value)
        THEN \* baseConfig.Hostname on the nil result of a failed fetch
             [status |-> "panic", sent |-> b.sent \o f.sent,
              fetched |-> [base |-> b.value, rules |-> f.value],
              diags |-> d2, state |-> Nil]
        ELSE [status |-> "returned", sent |-> b.sent \o f.sent,
              fetched |-> [base |-> b.value, rules |-> f.value],
              diags |-> d2,
              state |-> [kind |-> "PFSenseModel",
                         Hostname |-> StringValue(b.value.Hostname),
                         FirewallRules |-> firewallRules]]

(***************************************************************************)
(* The port validator (package provider)                                   *)
(***************************************************************************)

\* The regexp class \d.
IsDigit(c) == c \in {"0", "1", "2", "3", "4", "5", "6", "7", "8", "9"}

AllDigits(s) == s # <<>> /\ \A i \in 1..Len(s) : IsDigit(s[i])

RECURSIVE DecimalValue(_, _)
\* The digits of s read in base ten, continuing from n.
DecimalValue(s, n) ==
    IF s = <<>> THEN n
    ELSE DecimalValue(Tail(s), 10 * n + (Ord(Head(s)) - Ord("0")))

\* strconv.Atoi: an optional sign and then one or more decimal digits. The
\* strings checked here have fewer than ten characters, so the value always
\* fits an int and the range error of Atoi cannot arise.
Atoi(s) ==
    LET signed == s # <<>> /\ Head(s) \in {"+", "-"}
        digits == IF signed THEN Tail(s) ELSE s
        n == DecimalValue(digits, 0)
    IN  IF ~AllDigits(digits)
        THEN [n |-> 0, err |-> Errorf("invalid syntax")]
        ELSE [n |-> (IF Head(s) = "-" THEN 0 - n ELSE n), err |-> Nil]

\* The largest port number.
MaxPort == 65535

PortNumber(val) ==
    LET a == Atoi(val)
    IN  IF ~IsNil(a.err) \/ a.n < 1 \/ a.n > MaxPort
        THEN [n |-> 0,
              err |-> Errorf("value must null or a number between 1 and 65535")]
        ELSE [n |-> a.n, err |-> Nil]

\* portRangeRe.FindStringSubmatch for ^(\d+):(\d+)$: nil unless val is two
\* runs of digits around one colon, else the whole match and the two runs.
FindStringSubmatch(val) ==
    LET colons == {k \in 1..Len(val) : val[k] = ":"}
        k == CHOOSE c \in colons : TRUE
        first == SubSeq(val, 1, k - 1)
        second == SubSeq(val, k + 1, Len(val))
    IN  IF Cardinality(colons) = 1 /\ AllDigits(first) /\ AllDigits(second)
        THEN Ptr(<<val, first, second>>)
        ELSE Nil

\* PortRangeOrNullValidator.ValidateString: the diagnostics of resp after
\* the call. The summary of a range error also quotes the rejected number,
\* which is left out here.
ValidateString(req, resp) ==
    LET val == req.ConfigValue.value
        portRangeMatch == FindStringSubmatch(val)
        rangeError ==
            AddAttributeError(resp.Diagnostics, req.Path,
                              "Invalid port number in range",
                              "Value must be a number between 1 and 65535.")
    IN  IF val = <<"n", "u", "l", "l">>
        THEN resp
        ELSE IF ~IsNil(portRangeMatch)
        THEN IF ~IsNil(PortNumber(portRangeMatch.v[2]).err)
             THEN [resp EXCEPT !.Diagnostics = rangeError]
             ELSE IF ~IsNil(PortNumber(portRangeMatch.v[3]).err)
             THEN [resp EXCEPT !.Diagnostics = rangeError]
             ELSE resp
        ELSE IF ~IsNil(Atoi(val).err)
        THEN [resp EXCEPT !.Diagnostics =
                  AddAttributeError(resp.Diagnostics, req.Path,
                                    "Invalid port value", Atoi(val).err.msg)]
        ELSE resp

(***************************************************************************)
(* Inputs                                                                  *)
(***************************************************************************)

\* The values of the example provider block.
ExampleURL ==
    <<"h", "t", "t", "p", "s", ":", "/", "/",
      "1", "9", "2", ".", "1", "6", "8", ".", "1", ".", "1">>

ExampleUsername == <<"a", "d", "m", "i", "n">>

ExampleToken == <<"1", "2", "3", "4", "A", "B", "C", "D">>

ExamplePassword == <<"p", "w">>

\* Values set in the environment, all different from the configured ones.
EnvURL == <<"h", "t", "t", "p", "s", ":", "/", "/", "f", "w", "/">>

EnvUsername == <<"o", "p", "s">>

EnvPassword == <<"s", "3", "c", "r", "e", "t">>

EnvToken == <<"K", "9">>

\* An attribute left out, not yet known, or set to v; url and token are also
\* tried set to the empty string.
StringAttrs(v) == {NullString, UnknownString, StringValue(v)}

BoolAttrs == {NullBool, UnknownBool, BoolValue(TRUE), BoolValue(FALSE)}

Configs ==
    [URL : StringAttrs(ExampleURL) \cup {StringValue(<<>>)},
     Insecure : BoolAttrs,
     APIClientUsername : StringAttrs(ExampleUsername),
     APIClientPassword : StringAttrs(ExamplePassword),
     APIClientToken : StringAttrs(ExampleToken) \cup {StringValue(<<>>)}]

Environments ==
    [PFSENSEV2_URL : {<<>>, EnvURL},
     PFSENSEV2_INSECURE : {<<>>, <<"f", "a", "l", "s", "e">>,
                           <<"F", "A", "L", "S", "E">>, <<"1">>},
     PFSENSEV2_API_USERNAME : {<<>>, EnvUsername},
     PFSENSEV2_API_PASSWORD : {<<>>, EnvPassword},
     PFSENSEV2_API_TOKEN : {<<>>, EnvToken}]

\* The longest firewall-rules payload the server answers with.
MaxRules == 2

\* Records of the firewall-rules payload: a WAN pass rule, a disabled block
\* rule on two interfaces, and a record that lacks its description.
WanPassRule ==
    [Type            |-> Ptr(<<"p", "a", "s", "s">>),
     Interface       |-> Ptr(<< <<"w", "a", "n">> >>),
     Disabled        |-> Ptr(FALSE),
     Ipprotocol      |-> Ptr(<<"i", "n", "e", "t">>),
     Log             |-> Ptr(TRUE),
     Descr           |-> Ptr(<<"w", "e", "b">>),
     Protocol        |-> Ptr(<<"t", "c", "p">>),
     Source          |-> Ptr(<<"a", "n", "y">>),
     SourcePort      |-> Ptr(<<"n", "u", "l", "l">>),
     Destination     |-> Ptr(<<"(", "s", "e", "l", "f", ")">>),
     DestinationPort |-> Ptr(<<"4", "4", "3">>)]

LanBlockRule ==
    [Type            |-> Ptr(<<"b", "l", "o", "c", "k">>),
     Interface       |-> Ptr(<< <<"l", "a", "n">>, <<"w", "a", "n">> >>),
     Disabled        |-> Ptr(TRUE),
     Ipprotocol      |-> Ptr(<<"i", "n", "e", "t", "6">>),
     Log             |-> Ptr(FALSE),
     Descr           |-> Ptr(<<>>),
     Protocol        |-> Ptr(<<"u", "d", "p">>),
     Source          |-> Ptr(<<"l", "a", "n">>),
     SourcePort      |-> Ptr(<<"1", ":", "9">>),
     Destination     |-> Ptr(<<"!", "w", "a", "n">>),
     DestinationPort |-> Ptr(<<"5", "3">>)]

NoDescrRule == [WanPassRule EXCEPT !.Descr = Nil]

RuleRecords == {WanPassRule, LanBlockRule}

\* Every list of complete records up to MaxRules long, and two lists that
\* hold the incomplete record.
RulePayloads ==
    UNION {[1..n -> RuleRecords] : n \in 0..MaxRules}
        \cup {<<NoDescrRule>>, <<LanBlockRule, NoDescrRule>>}

\* The longest port value tried out of every string over PortChars.
MaxPortLen == 3

RECURSIVE StringsOver(_, _)
\* Every string over an alphabet up to n characters long.
StringsOver(alphabet, n) ==
    IF n = 0 THEN {<<>>}
    ELSE LET shorter == StringsOver(alphabet, n - 1)
         IN  shorter \cup {Append(t, c) : t \in {u \in shorter : Len(u) = n - 1},
                                          c \in alphabet}

\* Digits, the range separator, a sign and a letter.
PortChars == {"0", "1", "9", ":", "-", "w"}

\* Port values as configurations spell them: null, the ends of the port
\* range, ranges, and names of port aliases.
PortSamples ==
    {<<"n", "u", "l", "l">>, <<"4", "4", "3">>,
     <<"6", "5", "5", "3", "5">>, <<"6", "5", "5", "3", "6">>,
     <<"1", ":", "6", "5", "5", "3", "5">>, <<"1", ":", "6", "5", "5", "3", "6">>,
     <<"8", "0", ":", "4", "4", "3">>, <<"0", ":", "8", "0">>,
     <<"h", "t", "t", "p">>, <<"w", "e", "b", "_", "p", "o", "r", "t", "s">>}

\* What a configuration can hold in source_port or destination_port.
PortValues ==
    {NullString, UnknownString}
        \cup {StringValue(v) : v \in StringsOver(PortChars, MaxPortLen) \cup PortSamples}

\* The longest rule list WANRules is called on.
MaxWanRules == 3

\* Model rules on wan, on lan and wan, on lan alone, on no interface, and on
\* an interface list whose values are not the known string wan.
WanRule == ModelRule(RuleFromJSON(WanPassRule))

LanWanRule == ModelRule(RuleFromJSON(LanBlockRule))

LanRule == [LanWanRule EXCEPT !.Interfaces = <<StringValue(<<"l", "a", "n">>)>>]

FloatingRule == [WanRule EXCEPT !.Interfaces = <<>>]

OtherRule ==
    [WanRule EXCEPT !.Interfaces = <<UnknownString, StringValue(<<"W", "A", "N">>)>>]

\* Every list of pointers to these rules up to MaxWanRules long.
WanInputs ==
    UNION {[1..n -> {Ptr(r) : r \in {WanRule, LanWanRule, LanRule, FloatingRule, OtherRule}}] :
               n \in 0..MaxWanRules}

\* A request either fails in transport, or is answered with a status other
\* than 200 (JSON200 is nil), or with a 200 payload.
TransportError == [sent |-> TRUE, failed |-> TRUE, JSON200 |-> Nil]

Non200 == [sent |-> TRUE, failed |-> FALSE, JSON200 |-> Nil]

OK200(data) ==
    [sent |-> TRUE, failed |-> FALSE, JSON200 |-> [kind |-> "JSON200", Data |-> data]]

HostnameResponses ==
    {TransportError, Non200,
     OK200([Hostname |-> Ptr(<<"f", "w", "1">>), Domain |-> Ptr(<<"l", "a", "n">>)]),
     OK200([Hostname |-> Nil, Domain |-> Ptr(<<"l", "a", "n">>)])}

FirewallRulesResponses ==
    {TransportError, Non200} \cup {OK200(Ptr(p)) : p \in RulePayloads}

\* The response of a request that was never sent.
NoResponse == [sent |-> FALSE, failed |-> FALSE, JSON200 |-> Nil]

(***************************************************************************)
(* The plugin lifecycle                                                    *)
(***************************************************************************)

LibVars == <<libPc, portValue, portDiags, wanInput, wanResult>>

\* No library call under way.
LibIdle ==
    /\ libPc = "idle"
    /\ portValue = NullString
    /\ portDiags = <<>>
    /\ wanInput = <<>>
    /\ wanResult = <<>>

Init ==
    /\ LibIdle
    /\ config \in Configs
    /\ env \in Environments
    /\ pc = "start"
    /\ impl = "none"
    /\ locals = [url |-> <<>>, auth |-> Nil, insecure |-> FALSE]
    /\ diags = <<>>
    /\ DataSourceData = Nil
    /\ ResourceData = Nil
    /\ newClientCalls = <<>>
    /\ dsClient = Nil
    /\ dsDiags = <<>>
    /\ requests = <<>>
    /\ hostResp = NoResponse
    /\ rulesResp = NoResponse
    /\ fetched = [base |-> Nil, rules |-> <<>>]
    /\ readStatus = "none"
    /\ readDiags = <<>>
    /\ state = Nil

ReadVars == <<dsClient, dsDiags, requests, hostResp, rulesResp, fetched,
              readStatus, readDiags, state>>

\* What a provider Configure leaves behind.
Configured(name, r) ==
    /\ pc = "start"
    /\ pc' = IF r.status = "panic" THEN "crashed" ELSE "configured"
    /\ impl' = name
    /\ locals' = r.locals
    /\ diags' = r.diags
    /\ newClientCalls' = newClientCalls \o r.calls
    /\ DataSourceData' = r.data
    /\ ResourceData' = r.data
    /\ UNCHANGED <<config, env>>
    /\ UNCHANGED ReadVars
    /\ UNCHANGED LibVars

Configure == Configured("auth", ConfigureResult(config, env))

DefaultClientConfigure ==
    Configured("default-client", DefaultClientConfigureResult(config, env))

\* PFSenseDataSource.Configure with req.ProviderData = DataSourceData.
DataSourceConfigure ==
    /\ pc = "configured"
    /\ pc' = "ready"
    /\ IF IsNil(DataSourceData)
       THEN UNCHANGED <<dsClient, dsDiags>>
       ELSE IF DataSourceData.kind = "PFSenseClientV2"
       THEN dsClient' = DataSourceData /\ UNCHANGED dsDiags
       ELSE /\ dsDiags' = AddError(dsDiags, "Unexpected Data Source Configure Type",
                                   "expected-client")
            /\ UNCHANGED dsClient
    /\ UNCHANGED <<config, env, impl, locals, diags, DataSourceData, ResourceData,
                   newClientCalls, requests, hostResp, rulesResp, fetched,
                   readStatus, readDiags, state>>
    /\ UNCHANGED LibVars

\* What a Read leaves behind, given the responses it received.
ReadDone(r, hres, rres) ==
    /\ pc = "ready"
    /\ pc' = "done"
    /\ requests' = requests \o r.sent
    /\ hostResp' = IF Len(r.sent) >= 1 THEN hres ELSE NoResponse
    /\ rulesResp' = IF Len(r.sent) >= 2 THEN rres ELSE NoResponse
    /\ fetched' = r.fetched
    /\ readStatus' = r.status
    /\ readDiags' = r.diags
    /\ state' = r.state
    /\ UNCHANGED <<config, env, impl, locals, diags, DataSourceData, ResourceData,
                   newClientCalls, dsClient, dsDiags>>
    /\ UNCHANGED LibVars

\* What req.Config.Get reports when it cannot decode the configuration.
ConfigGetError == AddError(<<>>, "Value Conversion Error", "config-get")

\* PFSenseDataSource.Read: req.Config.Get, both fetches, the rule conversion
\* and State.Set. Read returns at once when Config.Get reports an error;
\* without a client no request is sent, so no response is drawn.
Read ==
    \/ ReadDone(ReadResult(dsClient, ConfigGetError, NoResponse, NoResponse),
                NoResponse, NoResponse)
    \/ IF IsNil(dsClient)
       THEN ReadDone(ReadResult(dsClient, <<>>, NoResponse, NoResponse),
                     NoResponse, NoResponse)
       ELSE \E hres \in HostnameResponses, rres \in FirewallRulesResponses :
                ReadDone(ReadResult(dsClient, <<>>, hres, rres), hres, rres)

Next == Configure \/ DefaultClientConfigure \/ DataSourceConfigure \/ Read

Spec == Init /\ [][Next]_vars

(***************************************************************************)
(* Library calls: the port validator and WANRules on their own             *)
(***************************************************************************)

\* The provider is not started; one library call is about to be made.
LibInit ==
    /\ config = [URL |-> StringValue(ExampleURL), Insecure |-> NullBool,
                 APIClientUsername |-> NullString, APIClientPassword |-> NullString,
                 APIClientToken |-> StringValue(ExampleToken)]
    /\ env = [PFSENSEV2_URL |-> <<>>, PFSENSEV2_INSECURE |-> <<>>,
              PFSENSEV2_API_USERNAME |-> <<>>, PFSENSEV2_API_PASSWORD |-> <<>>,
              PFSENSEV2_API_TOKEN |-> <<>>]
    /\ pc = "start"
    /\ impl = "none"
    /\ locals = [url |-> <<>>, auth |-> Nil, insecure |-> FALSE]
    /\ diags = <<>>
    /\ DataSourceData = Nil
    /\ ResourceData = Nil
    /\ newClientCalls = <<>>
    /\ dsClient = Nil
    /\ dsDiags = <<>>
    /\ requests = <<>>
    /\ hostResp = NoResponse
    /\ rulesResp = NoResponse
    /\ fetched = [base |-> Nil, rules |-> <<>>]
    /\ readStatus = "none"
    /\ readDiags = <<>>
    /\ state = Nil
    /\ \/ libPc = "validate" /\ portValue \in PortValues /\ wanInput = <<>>
       \/ libPc = "filter" /\ portValue = NullString /\ wanInput \in WanInputs
    /\ portDiags = <<>>
    /\ wanResult = <<>>

LifecycleVars ==
    <<config, env, pc, impl, locals, diags, DataSourceData, ResourceData,
      newClientCalls, dsClient, dsDiags, requests, hostResp, rulesResp,
      fetched, readStatus, readDiags, state>>

\* The framework validates a source_port or destination_port value.
Validate ==
    /\ libPc = "validate"
    /\ libPc' = "validated"
    /\ portDiags' = ValidateString([Path |-> "source_port", ConfigValue |-> portValue],
                                   [Diagnostics |-> portDiags]).Diagnostics
    /\ UNCHANGED <<portValue, wanInput, wanResult>>
    /\ UNCHANGED LifecycleVars

\* WANRules is called on a rule list; the list itself is not assigned to.
Filter ==
    /\ libPc = "filter"
    /\ libPc' = "filtered"
    /\ wanResult' = WANRules(wanInput)
    /\ UNCHANGED <<portValue, portDiags, wanInput>>
    /\ UNCHANGED LifecycleVars

LibNext == Validate \/ Filter

LibSpec == LibInit /\ [][LibNext]_vars

(***************************************************************************)
(* Properties                                                              *)
(***************************************************************************)

\* The value an attribute resolves to: the configured one when the attribute
\* is set, else the environment variable's.
Resolve(attr, envValue) == IF attr.state = "null" THEN envValue ELSE attr.value

ResolvedURL == Resolve(config.URL, env.PFSENSEV2_URL)

ResolvedUsername == Resolve(config.APIClientUsername, env.PFSENSEV2_API_USERNAME)

ResolvedPassword == Resolve(config.APIClientPassword, env.PFSENSEV2_API_PASSWORD)

ResolvedToken == Resolve(config.APIClientToken, env.PFSENSEV2_API_TOKEN)

UsernameAndPassword == ResolvedUsername # <<>> /\ ResolvedPassword # <<>>

NoCredentials == ~UsernameAndPassword /\ ResolvedToken = <<>>

AuthErrorReported ==
    \E i \in 1..Len(diags) :
        /\ diags[i].severity = "error"
        /\ diags[i].summary = "No valid PFSenseV2 authentication configured"

\* The url and the insecure flag are usable, as in the example provider block.
URLAndInsecureUsable ==
    ~IsUnknown(config.URL) /\ ResolvedURL # <<>> /\ ~IsUnknown(config.Insecure)

\* C1: once a provider Configure has run on a configuration whose URL is
\* unknown or resolves to the empty string, or for which no credentials
\* resolve, it has left an error diagnostic, NewPFSenseClientV2 was never
\* called, DataSourceData and ResourceData are unset, and no HTTP request is
\* ever issued, not even by a later Read.
C1_ConfigErrorsBeforeNetwork ==
    (pc # "start" /\ (IsUnknown(config.URL) \/ ResolvedURL = <<>> \/ NoCredentials))
        => /\ HasError(diags)
           /\ newClientCalls = <<>>
           /\ IsNil(DataSourceData)
           /\ IsNil(ResourceData)
           /\ requests = <<>>

\* C1 witness: Configure ran with a valid token but no URL anywhere, reported
\* the URL, and the data source went through its Read without a request.
C1_Witness ==
    /\ pc = "done"
    /\ impl = "auth"
    /\ IsNull(config.URL) /\ env.PFSENSEV2_URL = <<>>
    /\ ResolvedToken # <<>> /\ ~UsernameAndPassword
    /\ ~IsUnknown(config.Insecure)
    /\ Len(diags) = 1 /\ diags[1].attr = "url"
    /\ requests = <<>>

\* C2: whenever username, password and API token all resolve to non-empty
\* values, ConfiguredAuth adds an error diagnostic and returns no
\* Authorization, so Configure builds no client. (Stated for configurations
\* with nothing else to report, so that the client is the one of this case.)
C2_ConflictingAuthReported ==
    (impl = "auth" /\ UsernameAndPassword /\ ResolvedToken # <<>> /\ URLAndInsecureUsable)
        => /\ IsNil(locals.auth)
           /\ AuthErrorReported
           /\ newClientCalls = <<>>
           /\ IsNil(DataSourceData)

\* C3: whenever username and password resolve to non-empty values and no API
\* token resolves (token null in the config, PFSENSEV2_API_TOKEN unset),
\* ConfiguredAuth returns a BasicAuth with exactly that username and password
\* and adds no diagnostic. (Stated for configurations with nothing else to
\* report.)
C3_UsernamePasswordAccepted ==
    (/\ impl = "auth"
     /\ URLAndInsecureUsable
     /\ UsernameAndPassword
     /\ IsNull(config.APIClientToken) /\ env.PFSENSEV2_API_TOKEN = <<>>)
        => /\ locals.auth = BasicAuth(ResolvedUsername, ResolvedPassword)
           /\ diags = <<>>

\* C4: whenever the token resolves to a non-empty value and username and
\* password do not both resolve to non-empty values, ConfiguredAuth returns
\* an APIKeyAuth holding that token and reports nothing; and when the url and
\* the insecure flag are usable too (as in the example provider block),
\* Configure adds no error diagnostic, calls NewPFSenseClientV2 once with that
\* auth, and sets DataSourceData and ResourceData to the one client built.
C4_TokenAccepted ==
    (impl = "auth" /\ ResolvedToken # <<>> /\ ~UsernameAndPassword)
        => /\ locals.auth = APIKeyAuth(ResolvedToken)
           /\ ~AuthErrorReported
           /\ URLAndInsecureUsable
                => /\ ~HasError(diags)
                   /\ Len(newClientCalls) = 1
                   /\ newClientCalls[1].auth = APIKeyAuth(ResolvedToken)
                   /\ ~IsNil(DataSourceData)
                   /\ DataSourceData.kind = "PFSenseClientV2"
                   /\ DataSourceData.url = ResolvedURL
                   /\ ResourceData = DataSourceData

\* C4 witness: the example provider block (url, insecure, api_client_username
\* and api_client_token set, no password) with an empty environment.
C4_Witness ==
    /\ impl = "auth"
    /\ config = [URL |-> StringValue(ExampleURL),
                 Insecure |-> BoolValue(TRUE),
                 APIClientUsername |-> StringValue(ExampleUsername),
                 APIClientPassword |-> NullString,
                 APIClientToken |-> StringValue(ExampleToken)]
    /\ env = [PFSENSEV2_URL |-> <<>>, PFSENSEV2_INSECURE |-> <<>>,
              PFSENSEV2_API_USERNAME |-> <<>>, PFSENSEV2_API_PASSWORD |-> <<>>,
              PFSENSEV2_API_TOKEN |-> <<>>]
    /\ locals.auth = APIKeyAuth(ExampleToken)
    /\ diags = <<>>
    /\ ~IsNil(DataSourceData)
    /\ ResourceData = DataSourceData

\* A fetch failed: its request was sent and met a transport error or an
\* answer other than 200.
FetchFailed(res) == res.sent /\ (res.failed \/ IsNil(res.JSON200))

ClientErrorReported(which) ==
    \E i \in 1..Len(readDiags) :
        readDiags[i].summary = "Client Error" /\ readDiags[i].detail = which

\* C5: for every outcome of the two fetches of a Read on a configured client
\* in which a fetch failed, Read has returned normally with a "Client Error"
\* diagnostic for each failed fetch; it never aborts on the missing result.
C5_FetchErrorsSurfaced ==
    (pc = "done" /\ ~IsNil(dsClient) /\ (FetchFailed(hostResp) \/ FetchFailed(rulesResp)))
        => /\ readStatus = "returned"
           /\ FetchFailed(hostResp) => ClientErrorReported("base-config")
           /\ FetchFailed(rulesResp) => ClientErrorReported("firewall-rules")

\* Both fetches of the Read were answered 200 with every field present.
CompletePayloads ==
    /\ pc = "done"
    /\ hostResp.sent /\ ~hostResp.failed /\ ~IsNil(hostResp.JSON200)
    /\ ~IsNil(hostResp.JSON200.Data.Hostname) /\ ~IsNil(hostResp.JSON200.Data.Domain)
    /\ rulesResp.sent /\ ~rulesResp.failed /\ ~IsNil(rulesResp.JSON200)
    /\ \A i \in 1..Len(rulesResp.JSON200.Data.v) :
            AllFieldsPresent(rulesResp.JSON200.Data.v[i])

\* The fetched rule f and the model rule m carry the fields of payload record p.
CopiedVerbatim(p, f, m) ==
    /\ f.Type = p.Type.v                       /\ m.Type = StringValue(p.Type.v)
    /\ f.Interfaces = p.Interface.v
    /\ Len(m.Interfaces) = Len(p.Interface.v)
    /\ \A k \in 1..Len(p.Interface.v) : m.Interfaces[k] = StringValue(p.Interface.v[k])
    /\ f.Disabled = p.Disabled.v               /\ m.Disabled = BoolValue(p.Disabled.v)
    /\ f.AddressFamily = p.Ipprotocol.v        /\ m.AddressFamily = StringValue(p.Ipprotocol.v)
    /\ f.Log = p.Log.v                         /\ m.Log = BoolValue(p.Log.v)
    /\ f.Description = p.Descr.v               /\ m.Description = StringValue(p.Descr.v)
    /\ f.Protocol = p.Protocol.v               /\ m.Protocol = StringValue(p.Protocol.v)
    /\ f.Source = p.Source.v                   /\ m.Source = StringValue(p.Source.v)
    /\ f.SourcePort = p.SourcePort.v           /\ m.SourcePort = StringValue(p.SourcePort.v)
    /\ f.Destination = p.Destination.v         /\ m.Destination = StringValue(p.Destination.v)
    /\ f.DestinationPort = p.DestinationPort.v
    /\ m.DestinationPort = StringValue(p.DestinationPort.v)

\* C6: after a Read whose hostname and firewall-rules requests were answered
\* 200 with all fields present, GetFirewallRules returned exactly the n
\* records of the payload, in order, Read wrote exactly n model rules in the
\* same order, each field of each rule equal to the payload's field of the
\* same name, and the model hostname is the payload hostname.
C6_FieldsCopiedVerbatim ==
    CompletePayloads =>
        LET payload == rulesResp.JSON200.Data.v
        IN  /\ readStatus = "returned"
            /\ ~IsNil(state)
            /\ Len(fetched.rules) = Len(payload)
            /\ Len(state.FirewallRules) = Len(payload)
            /\ \A i \in 1..Len(payload) :
                    CopiedVerbatim(payload[i], fetched.rules[i], state.FirewallRules[i])
            /\ state.Hostname = StringValue(hostResp.JSON200.Data.Hostname.v)

\* C6 witness: a Read that fetched two different rules, the block rule first.
C6_Witness ==
    /\ CompletePayloads
    /\ rulesResp.JSON200.Data.v = <<LanBlockRule, WanPassRule>>
    /\ Len(state.FirewallRules) = 2
    /\ state.FirewallRules[1].Source = StringValue(<<"l", "a", "n">>)
    /\ state.FirewallRules[2].Destination = StringValue(<<"(", "s", "e", "l", "f", ")">>)

B64Value(c) == (CHOOSE i \in 1..Len(B64Alphabet) : B64Alphabet[i] = c) - 1

RECURSIVE DecodeChars(_)
\* The bytes a padded base64 text stands for.
DecodeChars(s) ==
    IF Len(s) < 4 THEN <<>>
    ELSE LET v1 == B64Value(s[1])
             v2 == B64Value(s[2])
             b1 == v1 * 4 + (v2 \div 16)
             group == IF s[3] = "=" THEN <<b1>>
                      ELSE IF s[4] = "="
                      THEN <<b1, (v2 % 16) * 16 + (B64Value(s[3]) \div 4)>>
                      ELSE <<b1, (v2 % 16) * 16 + (B64Value(s[3]) \div 4),
                             (B64Value(s[3]) % 4) * 64 + B64Value(s[4])>>
         IN  group \o DecodeChars(SubSeq(s, 5, Len(s)))

DecodeString(s) ==
    LET b == DecodeChars(s) IN [i \in 1..Len(b) |-> Chr(b[i])]

HeaderValues(req, name) == SelectSeq(req.headers, LAMBDA h : h.name = name)

\* C7: every request sent carries the header of the Authorization the client
\* was built with and not the other one: with BasicAuth exactly one
\* Authorization header, "Basic " followed by the padded base64 text that
\* decodes to username:password, and no X-API-Key; with APIKeyAuth exactly one X-API-Key
\* header holding the token, and no Authorization; on the hostname request
\* and on the firewall-rules request alike.
C7_AuthHeaderOnEveryRequest ==
    \A i \in 1..Len(requests) :
        LET auth == newClientCalls[1].auth
            basic == HeaderValues(requests[i], "Authorization")
            key == HeaderValues(requests[i], "X-API-Key")
        IN  /\ Len(newClientCalls) = 1
            /\ auth.kind \in {"BasicAuth", "APIKeyAuth"}
            /\ auth.kind = "BasicAuth" =>
                /\ Len(basic) = 1 /\ Len(key) = 0
                /\ SubSeq(basic[1].value, 1, 6) = <<"B", "a", "s", "i", "c", " ">>
                /\ Len(basic[1].value) - 6
                        = 4 * ((Len(auth.Username) + Len(auth.Password) + 3) \div 3)
                /\ DecodeString(SubSeq(basic[1].value, 7, Len(basic[1].value)))
                        = auth.Username \o <<":">> \o auth.Password
            /\ auth.kind = "APIKeyAuth" =>
                /\ Len(key) = 1 /\ Len(basic) = 0
                /\ key[1].value = auth.APIToken

\* C7 witness: a BasicAuth client has sent the hostname request and then
\* the firewall-rules request.
C7_Witness ==
    /\ Len(requests) = 2
    /\ requests[1].endpoint = "GetSystemHostnameEndpoint"
    /\ requests[2].endpoint = "GetFirewallRulesEndpoint"
    /\ newClientCalls[1].auth = BasicAuth(ExampleUsername, ExamplePassword)
    /\ Len(HeaderValues(requests[2], "Authorization")) = 1

\* The environment holds one valid credential: username and password without
\* a token, or a token without a username/password pair.
EnvBasic ==
    /\ env.PFSENSEV2_API_USERNAME # <<>> /\ env.PFSENSEV2_API_PASSWORD # <<>>
    /\ env.PFSENSEV2_API_TOKEN = <<>>

EnvTokenOnly ==
    /\ env.PFSENSEV2_API_TOKEN # <<>>
    /\ ~(env.PFSENSEV2_API_USERNAME # <<>> /\ env.PFSENSEV2_API_PASSWORD # <<>>)

\* C8: with url, api_client_username, api_client_password and
\* api_client_token all null, Configure uses the values of PFSENSEV2_URL,
\* PFSENSEV2_API_USERNAME, PFSENSEV2_API_PASSWORD and PFSENSEV2_API_TOKEN, so
\* with the URL and a valid credential in the environment it configures
\* without error diagnostics.
C8_EnvironmentFallback ==
    (/\ impl = "auth"
     /\ IsNull(config.URL) /\ IsNull(config.APIClientUsername)
     /\ IsNull(config.APIClientPassword) /\ IsNull(config.APIClientToken)
     /\ ~IsUnknown(config.Insecure)
     /\ env.PFSENSEV2_URL # <<>>
     /\ (EnvBasic \/ EnvTokenOnly))
        => /\ locals.url = env.PFSENSEV2_URL
           /\ EnvBasic => locals.auth = BasicAuth(env.PFSENSEV2_API_USERNAME,
                                                  env.PFSENSEV2_API_PASSWORD)
           /\ EnvTokenOnly => locals.auth = APIKeyAuth(env.PFSENSEV2_API_TOKEN)
           /\ ~HasError(diags)
           /\ ~IsNil(DataSourceData)

\* C9: the client Configure built with insecure resolved to true differs from
\* the client NewPFSenseClientV2 returns for the same url and auth with
\* insecure false.
C9_InsecureTakesEffect ==
    (impl = "auth" /\ ~IsNil(DataSourceData) /\ locals.insecure)
        => NewPFSenseClientV2(locals.url, locals.auth, ~locals.insecure).client
                # DataSourceData

\* "false" in any mix of upper and lower case.
SpellsFalse(s) ==
    /\ Len(s) = 5
    /\ s[1] \in {"f", "F"} /\ s[2] \in {"a", "A"} /\ s[3] \in {"l", "L"}
    /\ s[4] \in {"s", "S"} /\ s[5] \in {"e", "E"}

InsecureErrorReported ==
    \E i \in 1..Len(diags) : diags[i].severity = "error" /\ diags[i].attr = "insecure"

\* C10: ConfiguredInsecure returns the config value whenever insecure is known
\* in the configuration, whatever the environment; with the attribute null it
\* returns true exactly when PFSENSEV2_INSECURE is non-empty and does not
\* spell "false" in any case, and false otherwise; with the attribute unknown
\* it adds an error diagnostic (and only then).
C10_InsecureResolution ==
    impl = "auth" =>
        /\ config.Insecure.state = "known" => locals.insecure = config.Insecure.value
        /\ IsNull(config.Insecure) =>
              locals.insecure = (/\ env.PFSENSEV2_INSECURE # <<>>
                                 /\ ~SpellsFalse(env.PFSENSEV2_INSECURE))
        /\ IsUnknown(config.Insecure) <=> InsecureErrorReported

\* C10 witness: insecure is null and PFSENSEV2_INSECURE is "FALSE": false.
C10_Witness ==
    /\ impl = "auth"
    /\ IsNull(config.Insecure)
    /\ env.PFSENSEV2_INSECURE = <<"F", "A", "L", "S", "E">>
    /\ locals.insecure = FALSE
    /\ ~InsecureErrorReported

\* The number of requests sent to an endpoint so far.
RequestsTo(endpoint) ==
    Cardinality({i \in 1..Len(requests) : requests[i].endpoint = endpoint})

\* C11: a Read sends exactly one hostname request when it calls GetBaseConfig
\* and exactly one firewall-rules request when it calls GetFirewallRules,
\* whether the request succeeds or fails; the hostname request comes first,
\* no other request is sent and a failed request is never sent again.
C11_OneRequestPerFetch ==
    /\ RequestsTo("GetSystemHostnameEndpoint") = (IF hostResp.sent THEN 1 ELSE 0)
    /\ RequestsTo("GetFirewallRulesEndpoint") = (IF rulesResp.sent THEN 1 ELSE 0)
    /\ Len(requests) =
           RequestsTo("GetSystemHostnameEndpoint") + RequestsTo("GetFirewallRulesEndpoint")
    /\ \A i, j \in 1..Len(requests) :
           i < j => /\ requests[i].endpoint = "GetSystemHostnameEndpoint"
                    /\ requests[j].endpoint = "GetFirewallRulesEndpoint"
    /\ rulesResp.sent => hostResp.sent

\* Both requests of a Read failed, and each was sent once.
C11_Witness ==
    /\ pc = "done"
    /\ FetchFailed(hostResp)
    /\ FetchFailed(rulesResp)
    /\ Len(requests) = 2

\* A decimal number, possibly negative, with no colon in it.
SingleNumber(s) ==
    IF s # <<>> /\ Head(s) = "-" THEN AllDigits(Tail(s)) ELSE AllDigits(s)

NumberOf(s) ==
    IF Head(s) = "-" THEN 0 - DecimalValue(Tail(s), 0) ELSE DecimalValue(s, 0)

\* C12: once ValidateString has run on a value that is a single number (no
\* colon), it has added no diagnostic if the number is between 1 and 65535
\* and an error diagnostic if the number is outside that range (0, 65536,
\* a negative number).
C12_SingleNumberRangeChecked ==
    (libPc = "validated" /\ portValue.state = "known" /\ SingleNumber(portValue.value))
        => (HasError(portDiags) <=> ~(NumberOf(portValue.value) \in 1..MaxPort))

IsLetter(c) ==
    \/ Ord(c) >= Ord("a") /\ Ord(c) <= Ord("z")
    \/ Ord(c) >= Ord("A") /\ Ord(c) <= Ord("Z")

\* A name a firewall alias can have: letters, digits and underscores, starting
\* with a letter; "null" is the null form and not a name.
AliasName(s) ==
    /\ s # <<>>
    /\ s # <<"n", "u", "l", "l">>
    /\ IsLetter(Head(s))
    /\ \A i \in 1..Len(s) : IsLetter(s[i]) \/ IsDigit(s[i]) \/ s[i] = "_"

PortInRange(s) == AllDigits(s) /\ DecimalValue(s, 0) \in 1..MaxPort

\* The forms the description of source_port and destination_port lists.
DescribedPortForm(s) ==
    \/ s = <<"n", "u", "l", "l">>
    \/ PortInRange(s)
    \/ \E k \in 1..Len(s) :
           /\ s[k] = ":"
           /\ PortInRange(SubSeq(s, 1, k - 1))
           /\ PortInRange(SubSeq(s, k + 1, Len(s)))
    \/ AliasName(s)

\* C13: once ValidateString has run on a source_port or destination_port
\* value of a form its description lists (null, a port number, a port range
\* separated by a colon, the name of a port-type firewall alias), it has
\* added no error diagnostic.
C13_DescribedFormsAccepted ==
    (libPc = "validated" /\ portValue.state = "known"
         /\ DescribedPortForm(portValue.value))
        => ~HasError(portDiags)

\* C14: once Configure has built its client with the url attribute set to a
\* non-empty value and PFSENSEV2_URL set to a non-empty value, the URL it
\* resolved, and the URL it passed to NewPFSenseClientV2, is the value of the
\* environment variable.
C14_EnvironmentOverridesURL ==
    (/\ impl = "auth"
     /\ newClientCalls # <<>>
     /\ config.URL.state = "known"
     /\ config.URL.value # <<>>
     /\ env.PFSENSEV2_URL # <<>>)
        => /\ locals.url = env.PFSENSEV2_URL
           /\ \A i \in 1..Len(newClientCalls) :
                  newClientCalls[i].url = env.PFSENSEV2_URL

\* The request was answered with a 200 payload.
FetchSucceeded(res) == res.sent /\ ~res.failed /\ ~IsNil(res.JSON200)

\* C15: a Read in which the hostname fetch or the firewall-rules fetch failed
\* has written no state; state is written only when both fetches succeeded,
\* and then holds the fetched hostname and one rule for every fetched rule.
C15_NoPartialResult ==
    /\ (pc = "done" /\ (FetchFailed(hostResp) \/ FetchFailed(rulesResp)))
           => IsNil(state)
    /\ ~IsNil(state)
           => /\ FetchSucceeded(hostResp)
              /\ FetchSucceeded(rulesResp)
              /\ state.Hostname = StringValue(hostResp.JSON200.Data.Hostname.v)
              /\ Len(state.FirewallRules) = Len(rulesResp.JSON200.Data.v)

\* The known string "wan", spelled out.
KnownWan == [state |-> "known", value |-> <<"w", "a", "n">>]

\* The positions of the rules of wanInput that are on the wan interface.
WanIndexes ==
    {i \in 1..Len(wanInput) :
        \E k \in 1..Len(wanInput[i].v.Interfaces) : wanInput[i].v.Interfaces[k] = KnownWan}

\* wanResult is wanInput restricted to WanIndexes, in the same order.
KeepsWanRulesInOrder ==
    /\ Len(wanResult) = Cardinality(WanIndexes)
    /\ \A i \in WanIndexes :
           wanResult[Cardinality({j \in WanIndexes : j <= i})] = wanInput[i].v
    /\ WanIndexes = {} => wanResult = <<>>

\* C16: every call of WANRules leaves the rule list unchanged and returns
\* exactly the rules whose Interfaces holds the known string "wan", in any
\* position, each once and in the order of the list; the result is empty
\* when no rule is on wan.
C16_WANRulesFilters ==
    [][(libPc = "filter" /\ libPc' = "filtered")
          => (wanInput' = wanInput /\ KeepsWanRulesInOrder')]_vars

\* C16 witness: WANRules called on a lan rule, a lan+wan rule and a wan rule
\* returned the last two.
C16_Witness ==
    /\ libPc = "filtered"
    /\ wanInput = <<Ptr(LanRule), Ptr(LanWanRule), Ptr(WanRule)>>
    /\ wanResult = <<LanWanRule, WanRule>>

\* C17: NewPFSenseClientV2 is only ever called with a non-nil Authorization:
\* whenever ConfiguredAuth returned nil, Configure holds its error diagnostic,
\* has returned without calling the constructor and has not crashed on a nil
\* auth.
C17_ClientBuiltWithAuth ==
    /\ \A i \in 1..Len(newClientCalls) : ~IsNil(newClientCalls[i].auth)
    /\ impl = "auth" => pc # "crashed"
    /\ (impl = "auth" /\ IsNil(locals.auth))
           => /\ AuthErrorReported
              /\ newClientCalls = <<>>
              /\ IsNil(DataSourceData)

\* C17 witness: with a usable URL and no credentials, ConfiguredAuth returned
\* nil and its diagnostic is the only one; the constructor was not called.
C17_Witness ==
    /\ impl = "auth"
    /\ URLAndInsecureUsable
    /\ NoCredentials
    /\ IsNil(locals.auth)
    /\ Len(diags) = 1
    /\ AuthErrorReported
    /\ newClientCalls = <<>>

====
